---- MODULE Spec2Model ----
(***************************************************************************)
(* A model of instagram_post_automation.py: the retry decorator            *)
(* exceptional_handler, the polling decorator wait_until, and (further     *)
(* down) the BrowserHandler / InstagramBot operations built on them.       *)
(*                                                                         *)
(* A decorated call is a frame of its own: the variables of the frame hold *)
(* the locals of the wrapper and its position.  `site` says who made the   *)
(* call: a caller of the decorated function itself ("retry_client",        *)
(* "wait_client") or a statement of the bot.                               *)
(***************************************************************************)
EXTENDS Integers, Sequences, FiniteSets, TLC

VARIABLES
    site,           \* the statement that is executing (who owns the frames)
    \* ---- frame of exceptional_handler.wrapper
    ehpc,           \* "idle" | "entry" | "backoff" | "returned" | "raised"
    retry,          \* kwargs.get("retry", 0)
    max_retries,    \* kwargs.get("max_retries", 2)
    calls,          \* invocations of func by this call of the wrapper
    sleeps,         \* time.sleep(5) executed by this call of the wrapper
    ehFault,        \* the fault caught last, or the one that left the wrapper
    faultsFirst,    \* client's operation: transient faults before it answers
    thenOk,         \* client's operation: answers with a value (or another fault)
    \* ---- frame of wait_until.wrapper
    wpc,            \* position in the wrapper
    max_attempts,   \* kwargs.get("max_tries", -1)
    attempt,
    dots,
    not_completed,
    evals,          \* evaluations of condition_func by this call
    hooks,          \* invocations of each hook by this call
    wsleeps,        \* time.sleep(kwargs.get("sleep", 0.5)) executed
    wresult,        \* the returned boolean ("True", "False"), "none" before the return
    trueAt,         \* client's predicate: first true on this evaluation, 0: never
    \* ---- a BrowserHandler / InstagramBot instance and its remote browser
    driver,         \* self.driver: "none" (None) | "live" | "dead" (quit, still set)
    platform,       \* self.platform
    sess,           \* what the session has been asked to do, counted
    page,           \* the remote page: what the selectors of the bot find
    call,           \* the method call in progress, or the last one: arguments, outcome
    log,            \* what the call in progress has done to the remote session
    prev,           \* the method call before this one
    btns,           \* the list a find_elements of a button scan returned (labels)
    bi,             \* position of the scan's for loop in btns
    ops,            \* method calls made so far
    \* ---- another BrowserHandler of the same host
    peer            \* its self.driver, its self.temp_profile, removals it issued

ehVars == <<ehpc, retry, max_retries, calls, sleeps, ehFault>>
planVars == <<faultsFirst, thenOk, trueAt>>
wVars == <<wpc, max_attempts, attempt, dots, not_completed, evals, hooks, wsleeps, wresult>>
botVars == <<driver, platform, sess, page, call, log, prev, btns, bi, ops>>
vars == <<site, ehVars, planVars, wVars, botVars, peer>>

----------------------------------------------------------------------------
(* Bounds of the model *)

\* largest retry ceiling a client passes
MaxCeiling == 3
\* largest attempt budget a client passes
MaxTries == 3
\* a client's operation that faults more often than any ceiling: on every call
AlwaysFaults == MaxCeiling + 1
\* where the model stops a poll that the code would continue for ever
PollCap == MaxTries + 2
\* method calls a client makes on one instance
MaxOps == 2

----------------------------------------------------------------------------
(* The remote page, as the selectors of the bot see it *)

\* the statements of login and post_image that call a decorated
\* BrowserHandler method (write, click_element, get_text)
LoginCallSites == { "login_user", "login_pass", "login_submit" }
ScanTextSites == { "crop_text", "edit_text", "share_text" }
ScanClickSites == { "crop_click", "edit_click", "share_click" }
PostCallSites ==
    { "post_new", "post_select", "post_file", "post_caption" }
        \cup ScanTextSites \cup ScanClickSites
CallSites == LoginCallSites \cup PostCallSites

\* the statements that poll with wait_until
WaitSites == { "login_wait", "crop_wait", "edit_wait", "compose_wait", "done_wait" }

\* max_tries of the polls of login and of the dialogs of post_image
GateBudget == 20
\* max_tries of the last poll of post_image
ConfirmBudget == 60

\* the dialog each statement works in
DialogOf(s) ==
    CASE s \in {"crop_wait", "crop_scan", "crop_text", "crop_click"} -> "crop"
      [] s \in {"edit_wait", "edit_scan", "edit_text", "edit_click"} -> "edit"
      [] s \in {"compose_wait", "post_caption", "share_scan", "share_text", "share_click"}
            -> "compose"
      [] s = "post_select" -> "menu"
      [] s = "post_file" -> "select"
      [] OTHER -> "none"

\* the label a button scan looks for
LabelOf(s) == IF DialogOf(s) = "compose" THEN "Share" ELSE "Next"

\* the buttons a dialog may show, in document order
ButtonLists(d) ==
    IF d = "compose"
    THEN { <<>>, <<"Back">>, <<"Share">>, <<"Back", "Share">> }
    ELSE IF d \in {"crop", "edit"}
    THEN { <<>>, <<"Back">>, <<"Next">>, <<"Back", "Next">> }
    ELSE { <<>> }

NoPage == [authed |-> FALSE, dialog |-> "none", pending |-> "none", buttons |-> <<>>]

\* whether the element a decorated call addresses is there to be found
ElementPresent(s) ==
    CASE s \in LoginCallSites -> driver = "live" /\ ~page.authed
      [] s = "post_new" -> driver = "live" /\ page.authed /\ page.dialog = "none"
      [] OTHER -> driver = "live" /\ page.dialog = DialogOf(s)

\* the faults a call into the driver may raise in the bot
DriverFaults == { "TimeoutException", "StaleElementReferenceException", "AttributeError" }

NoLog ==
    [touched |-> FALSE, homeAtNav |-> FALSE, homeAtPoll |-> FALSE,
     userWrites |-> 0, passWrites |-> 0, submits |-> 0,
     fileWrites |-> 0, cropNext |-> 0, editNext |-> 0, captions |-> 0, shares |-> 0,
     trail |-> <<>>]

\* the entry of the trail a statement of post_image leaves when it is done
EventOf(s) ==
    CASE s = "post_file" -> "file"
      [] s = "crop_wait" -> "crop_seen"
      [] s = "crop_click" -> "crop_next"
      [] s = "edit_wait" -> "edit_seen"
      [] s = "edit_click" -> "edit_next"
      [] s = "compose_wait" -> "compose_seen"
      [] s = "post_caption" -> "caption"
      [] s = "share_scan" -> "share_scan"
      [] s = "share_click" -> "share"
      [] s = "done_wait" -> "done_poll"
      [] OTHER -> "none"

\* the statements of post_image whose successful call is entered in the trail
ActionSites == { "post_file", "crop_click", "edit_click", "post_caption", "share_click" }

\* what a decorated call does when it succeeds, by statement
OpOkEffect ==
    IF site \notin CallSites THEN UNCHANGED <<page, log>>
    ELSE
    /\ log' = [log EXCEPT
                !.touched = TRUE,
                !.userWrites = IF site = "login_user" THEN @ + 1 ELSE @,
                !.passWrites = IF site = "login_pass" THEN @ + 1 ELSE @,
                !.submits = IF site = "login_submit" THEN @ + 1 ELSE @,
                !.fileWrites = IF site = "post_file" THEN @ + 1 ELSE @,
                !.cropNext = IF site = "crop_click" THEN @ + 1 ELSE @,
                !.editNext = IF site = "edit_click" THEN @ + 1 ELSE @,
                !.captions = IF site = "post_caption" THEN @ + 1 ELSE @,
                !.shares = IF site = "share_click" THEN @ + 1 ELSE @,
                !.trail = IF site \in ActionSites THEN Append(@, EventOf(site)) ELSE @]
    /\ page' = CASE site = "login_submit" -> [page EXCEPT !.pending = "home"]
                 [] site = "post_new" -> [page EXCEPT !.dialog = "menu"]
                 [] site = "post_select" -> [page EXCEPT !.dialog = "select"]
                 [] site = "post_file" -> [page EXCEPT !.pending = "crop"]
                 [] site = "crop_click" -> [page EXCEPT !.pending = "edit"]
                 [] site = "edit_click" -> [page EXCEPT !.pending = "compose"]
                 [] site = "share_click" -> [page EXCEPT !.pending = "closed"]
                 [] OTHER -> page

\* a decorated call that raises has still called into the driver
OpFaultEffect ==
    /\ log' = IF site \in CallSites THEN [log EXCEPT !.touched = TRUE] ELSE log
    /\ page' = page

\* the remote application completes the transition that the last action of
\* the bot asked for: the session is logged in, the next dialog opens, or
\* the dialog closes after the post was shared
EnvShow ==
    /\ driver = "live"
    /\ page.pending # "none"
    /\ \/ /\ page.pending = "home"
          /\ page' = [page EXCEPT !.authed = TRUE, !.pending = "none"]
       \/ /\ page.pending = "closed"
          /\ page' = [page EXCEPT !.dialog = "none", !.pending = "none", !.buttons = <<>>]
       \/ /\ page.pending \in {"crop", "edit", "compose"}
          /\ \E b \in ButtonLists(page.pending) :
                page' = [page EXCEPT !.dialog = page.pending, !.pending = "none",
                                     !.buttons = b]
    /\ UNCHANGED <<site, ehVars, planVars, peer, wVars, driver, platform, sess, call, log,
                   prev, btns, bi, ops>>

\* the dialog that follows a dialog of the post flow
DialogAfter(d) ==
    CASE d = "crop" -> "edit"
      [] d = "edit" -> "compose"
      [] OTHER -> "none"

\* the remote page moves on without a click of the bot: the window is
\* visible (headless=False, line 415) and whoever sits at it presses the
\* button that leads on, whatever its label is.  The bot looks at the page
\* when a poll evaluates its condition, so the step is taken while a poll
\* of post_image sleeps.
EnvOther ==
    /\ driver = "live"
    /\ site \in {"edit_wait", "compose_wait", "done_wait"}
    /\ wpc = "sleep"
    /\ page.dialog \in {"crop", "edit", "compose"}
    /\ page.pending = "none"
    /\ \E b \in ButtonLists(DialogAfter(page.dialog)) :
          page' = [page EXCEPT !.dialog = DialogAfter(page.dialog), !.buttons = b]
    /\ UNCHANGED <<site, ehVars, planVars, peer, wVars, driver, platform, sess, call, log,
                   prev, btns, bi, ops>>

----------------------------------------------------------------------------
(* exceptional_handler *)

\* the fault kinds the wrapper catches
COMMON_EXCEPTIONS ==
    { "NoSuchElementException", "TimeoutException",
      "StaleElementReferenceException", "ElementClickInterceptedException",
      "WebDriverException", "ElementNotInteractableException",
      "NoSuchAttributeException" }

\* fault kinds outside the caught set
OtherFaults == { "ValueError", "AttributeError" }

\* the terminal failure of the wrapper itself
MaxRetriesReached == "Maximum retries reached!"

\* default of kwargs.get("retry", 0)
DefaultRetry == 0
\* default of kwargs.get("max_retries", 2)
DefaultMaxRetries == 2

\* line 146: if retry >= max_retries
CeilingReachedStrict(r, m) == r > m
CeilingReachedEarly(r, m) == r + 1 >= m
CeilingReached(r, m) == r >= m

\* line 154: except COMMON_EXCEPTIONS
IsCaughtAll(f) == TRUE
IsCaught(f) == f \in COMMON_EXCEPTIONS

\* what the wrapped operation may do on its next invocation
\* ("ok": it returns; otherwise the kind of the fault it raises)
OpOutcomes ==
    IF site = "retry_client"
    THEN IF calls < faultsFirst THEN COMMON_EXCEPTIONS
         ELSE IF thenOk THEN {"ok"} ELSE OtherFaults
    ELSE IF site \in CallSites
    THEN DriverFaults \cup (IF ElementPresent(site) THEN {"ok"} ELSE {})
    ELSE {}

\* a fresh frame, as a caller without retry/max_retries keywords enters it
ehEnter(m) ==
    /\ ehpc' = "entry"
    /\ retry' = DefaultRetry
    /\ max_retries' = m
    /\ calls' = 0
    /\ sleeps' = 0
    /\ ehFault' = "none"

\* lines 144-147: the ceiling check at entry refuses the attempt
ehRefuse ==
    /\ ehpc = "entry"
    /\ CeilingReached(retry, max_retries)
    /\ ehpc' = "raised"
    /\ ehFault' = MaxRetriesReached
    /\ UNCHANGED <<site, retry, max_retries, calls, sleeps, planVars, peer, wVars, botVars>>

\* lines 148-153: func is invoked and returns
ehInvokeOk ==
    /\ ehpc = "entry"
    /\ ~CeilingReached(retry, max_retries)
    /\ "ok" \in OpOutcomes
    /\ calls' = calls + 1
    /\ ehpc' = "returned"
    /\ OpOkEffect
    /\ UNCHANGED <<site, retry, max_retries, sleeps, ehFault, planVars, peer, wVars,
                   driver, platform, sess, call, prev, btns, bi, ops>>

\* lines 148-154: func is invoked and raises
ehInvokeFault ==
    /\ ehpc = "entry"
    /\ ~CeilingReached(retry, max_retries)
    /\ \E f \in OpOutcomes \ {"ok"} :
          /\ ehFault' = f
          /\ ehpc' = IF IsCaught(f) THEN "backoff" ELSE "raised"
    /\ calls' = calls + 1
    /\ OpFaultEffect
    /\ UNCHANGED <<site, retry, max_retries, sleeps, planVars, peer, wVars,
                   driver, platform, sess, call, prev, btns, bi, ops>>

\* lines 155-156 without the sleep: the recursive call at once
ehBackoffNoSleep ==
    /\ ehpc = "backoff"
    /\ retry' = retry + 1
    /\ ehpc' = "entry"
    /\ UNCHANGED <<site, max_retries, calls, sleeps, ehFault, planVars, peer, wVars, botVars>>

\* lines 155-156: the backoff sleep, then the recursive call with retry + 1
ehBackoff ==
    /\ ehpc = "backoff"
    /\ sleeps' = sleeps + 1
    /\ retry' = retry + 1
    /\ ehpc' = "entry"
    /\ UNCHANGED <<site, max_retries, calls, ehFault, planVars, peer, wVars, botVars>>

----------------------------------------------------------------------------
(* wait_until *)

\* default of kwargs.get("max_tries", -1): no budget
Unbounded == -1

\* line 172 with > in place of >=
BudgetExhaustedLate(m, a) == m # Unbounded /\ a > m

\* line 172: if max_attempts != -1 and attempt >= max_attempts
BudgetExhausted(m, a) == m # Unbounded /\ a >= m

\* line 177: dots = 1 if dots > 2 else dots + 1
NextDots(d) == IF d > 2 THEN 1 ELSE d + 1

NoHooks == [before_loop |-> 0, in_loop_before |-> 0, in_loop_after |-> 0, after_loop |-> 0]

\* line 170: condition_func(*args), evaluated as evaluation number evals + 1
CondHolds ==
    CASE site = "wait_client" -> trueAt = evals + 1
      [] site = "login_wait" -> page.authed
      [] site = "done_wait" -> page.dialog = "none"
      [] site \in WaitSites -> page.dialog = DialogOf(site)
      [] OTHER -> FALSE

\* a fresh frame for a call with max_tries = m
wEnter(m) ==
    /\ wpc' = "before_loop"
    /\ max_attempts' = m
    /\ attempt' = 0
    /\ dots' = 1
    /\ not_completed' = FALSE
    /\ evals' = 0
    /\ hooks' = NoHooks
    /\ wsleeps' = 0
    /\ wresult' = "none"

\* lines 163-167
wBeforeLoop ==
    /\ wpc = "before_loop"
    /\ hooks' = [hooks EXCEPT !.before_loop = @ + 1]
    /\ attempt' = 0
    /\ dots' = 1
    /\ not_completed' = FALSE
    /\ wpc' = "in_loop_before"
    /\ UNCHANGED <<botVars, site, ehVars, planVars, peer, max_attempts, evals, wsleeps, wresult>>

\* line 169
wInLoopBefore ==
    /\ wpc = "in_loop_before"
    /\ hooks' = [hooks EXCEPT !.in_loop_before = @ + 1]
    /\ wpc' = "cond"
    /\ UNCHANGED <<botVars, site, ehVars, planVars, peer, max_attempts, attempt, dots, not_completed,
                   evals, wsleeps, wresult>>

\* lines 170-171
wCond ==
    /\ wpc = "cond"
    /\ evals' = evals + 1
    /\ wpc' = IF CondHolds THEN "after_loop" ELSE "budget"
    /\ log' = IF site \in WaitSites
              THEN [log EXCEPT !.touched = TRUE,
                               !.homeAtPoll = IF site = "login_wait" THEN page.authed ELSE @]
              ELSE log
    /\ UNCHANGED <<site, ehVars, planVars, peer, max_attempts, attempt, dots, not_completed,
                   hooks, wsleeps, wresult,
                   driver, platform, sess, page, call, prev, btns, bi, ops>>

\* lines 172-174 with a return in place of the break
wBudgetReturns ==
    /\ wpc = "budget"
    /\ IF BudgetExhausted(max_attempts, attempt)
       THEN not_completed' = TRUE /\ wpc' = "done" /\ wresult' = "False"
       ELSE not_completed' = not_completed /\ wpc' = "progress" /\ wresult' = wresult
    /\ UNCHANGED <<botVars, site, ehVars, planVars, peer, max_attempts, attempt, dots, evals, hooks,
                   wsleeps>>

\* lines 172-174
wBudget ==
    /\ wpc = "budget"
    /\ IF BudgetExhausted(max_attempts, attempt)
       THEN not_completed' = TRUE /\ wpc' = "after_loop"
       ELSE not_completed' = not_completed /\ wpc' = "progress"
    /\ UNCHANGED <<botVars, site, ehVars, planVars, peer, max_attempts, attempt, dots, evals, hooks,
                   wsleeps, wresult>>

\* lines 175-177 (the model stops a poll without budget at PollCap)
wProgress ==
    /\ wpc = "progress"
    /\ max_attempts = Unbounded => attempt < PollCap
    /\ attempt' = attempt + 1
    /\ dots' = NextDots(dots)
    /\ wpc' = "in_loop_after"
    /\ UNCHANGED <<botVars, site, ehVars, planVars, peer, max_attempts, not_completed, evals, hooks,
                   wsleeps, wresult>>

\* line 178
wInLoopAfter ==
    /\ wpc = "in_loop_after"
    /\ hooks' = [hooks EXCEPT !.in_loop_after = @ + 1]
    /\ wpc' = "sleep"
    /\ UNCHANGED <<botVars, site, ehVars, planVars, peer, max_attempts, attempt, dots, not_completed,
                   evals, wsleeps, wresult>>

\* lines 179-180
wSleep ==
    /\ wpc = "sleep"
    /\ wsleeps' = wsleeps + 1
    /\ wpc' = "in_loop_before"
    /\ UNCHANGED <<botVars, site, ehVars, planVars, peer, max_attempts, attempt, dots, not_completed,
                   evals, hooks, wresult>>

\* lines 181-182, returning not_completed itself
wAfterLoopInverted ==
    /\ wpc = "after_loop"
    /\ hooks' = [hooks EXCEPT !.after_loop = @ + 1]
    /\ wresult' = IF not_completed THEN "True" ELSE "False"
    /\ wpc' = "done"
    /\ UNCHANGED <<botVars, site, ehVars, planVars, peer, max_attempts, attempt, dots, not_completed,
                   evals, wsleeps>>

\* lines 181-182
wAfterLoop ==
    /\ wpc = "after_loop"
    /\ hooks' = [hooks EXCEPT !.after_loop = @ + 1]
    /\ wresult' = IF ~not_completed THEN "True" ELSE "False"
    /\ wpc' = "done"
    /\ UNCHANGED <<botVars, site, ehVars, planVars, peer, max_attempts, attempt, dots, not_completed,
                   evals, wsleeps>>

----------------------------------------------------------------------------
(* Idle frames and plans *)

ehIdle ==
    /\ ehpc = "idle" /\ retry = 0 /\ max_retries = DefaultMaxRetries
    /\ calls = 0 /\ sleeps = 0 /\ ehFault = "none"

wIdle ==
    /\ wpc = "idle" /\ max_attempts = Unbounded /\ attempt = 0 /\ dots = 1
    /\ not_completed = FALSE /\ evals = 0 /\ hooks = NoHooks /\ wsleeps = 0
    /\ wresult = "none"

NoPlan == faultsFirst = 0 /\ thenOk = TRUE /\ trueAt = 0

NoSess == [entered |-> 0, quits |-> 0, exits |-> 0, settles |-> 0, removals |-> 0]
NoCall == [op |-> "none", outcome |-> "none", exists |-> FALSE, ext |-> "",
           delete_profile |-> TRUE]
NoPrev == [op |-> "none", outcome |-> "none"]

\* no other BrowserHandler has been created
NoPeer == [driver |-> "absent", temp_profile |-> "", removals |-> 0]

\* a BrowserHandler after __init__, before start_chrome
botFresh ==
    /\ driver = "none" /\ sess = NoSess /\ page = NoPage /\ call = NoCall
    /\ log = NoLog /\ prev = NoPrev /\ btns = <<>> /\ bi = 0 /\ ops = 0

----------------------------------------------------------------------------
(* A client calling a function decorated with exceptional_handler, with    *)
(* max_retries = N, on an operation that raises transient faults on its    *)
(* first faultsFirst calls and then returns (thenOk) or raises another     *)
(* fault.                                                                  *)

InitRetry ==
    /\ site = "retry_client"
    /\ ehpc = "entry" /\ retry = DefaultRetry /\ calls = 0 /\ sleeps = 0
    /\ ehFault = "none"
    /\ max_retries \in -1 .. MaxCeiling
    /\ faultsFirst \in 0 .. AlwaysFaults
    /\ thenOk \in BOOLEAN
    /\ trueAt = 0
    /\ wIdle
    /\ botFresh /\ platform = "LINUX" /\ peer = NoPeer

NextRetry == ehRefuse \/ ehInvokeOk \/ ehInvokeFault \/ ehBackoff

SpecRetry == InitRetry /\ [][NextRetry]_vars

----------------------------------------------------------------------------
(* A client calling a function decorated with wait_until, with             *)
(* max_tries = M, on a predicate that is first true on evaluation trueAt.  *)

InitWait ==
    /\ site = "wait_client"
    /\ wpc = "before_loop" /\ attempt = 0 /\ dots = 1 /\ not_completed = FALSE
    /\ evals = 0 /\ hooks = NoHooks /\ wsleeps = 0 /\ wresult = "none"
    /\ max_attempts \in -3 .. MaxTries
    /\ trueAt \in 0 .. MaxTries + 2
    /\ faultsFirst = 0 /\ thenOk = TRUE
    /\ ehIdle
    /\ botFresh /\ platform = "LINUX" /\ peer = NoPeer

NextWait ==
    \/ wBeforeLoop \/ wInLoopBefore \/ wCond \/ wBudget
    \/ wProgress \/ wInLoopAfter \/ wSleep \/ wAfterLoop

SpecWait == InitWait /\ [][NextWait]_vars

----------------------------------------------------------------------------
(* BrowserHandler and InstagramBot *)

\* platform.system().upper(), line 192
Platforms == { "LINUX", "WINDOWS", "FREEBSD" }

\* lines 27-30 and 193-194: the profile directory of an instance
TEMP_PROFILES(pf) ==
    CASE pf = "WINDOWS" -> "~/AppData/Local/Temp/ProfileTemp"
      [] pf = "LINUX" -> "/tmp/ProfileTemp"
      [] OTHER -> "ProfileIA"

\* leaving a frame
ehClear ==
    /\ ehpc' = "idle" /\ retry' = 0 /\ max_retries' = DefaultMaxRetries
    /\ calls' = 0 /\ sleeps' = 0 /\ ehFault' = "none"

wClear ==
    /\ wpc' = "idle" /\ max_attempts' = Unbounded /\ attempt' = 0 /\ dots' = 1
    /\ not_completed' = FALSE /\ evals' = 0 /\ hooks' = NoHooks /\ wsleeps' = 0
    /\ wresult' = "none"

\* the next statement is a call of a decorated method, without retry keywords
CallWrapped(s) == site' = s /\ ehEnter(DefaultMaxRetries) /\ wClear

\* the next statement is a poll with max_tries = m
StartWait(s, m) == site' = s /\ wEnter(m) /\ ehClear

\* the next statement is neither
Goto(s) == site' = s /\ ehClear /\ wClear

\* the method returns v, or raises the exception with message v
Finish(v) ==
    /\ site' = "client" /\ ehClear /\ wClear
    /\ call' = [call EXCEPT !.outcome = v]

\* a method of the instance is entered at its first statement s
Enter(s) ==
    /\ prev' = [op |-> call.op, outcome |-> call.outcome]
    /\ log' = NoLog
    /\ btns' = <<>> /\ bi' = 0
    /\ Goto(s)

\* a client calls a method of the instance
Begin(op, s) ==
    /\ site = "client"
    /\ ops < MaxOps
    /\ ops' = ops + 1
    /\ Enter(s)

\* lines 243-254 (InstagramBot.__init__ calls it at line 296); the profile
\* directory may hold a logged-in session of an earlier run
start_chrome ==
    /\ site = "client"
    /\ driver = "none"
    /\ driver' = "live"
    /\ sess' = [sess EXCEPT !.entered = @ + 1]
    /\ \E a \in BOOLEAN : page' = [NoPage EXCEPT !.authed = a]
    /\ UNCHANGED <<site, ehVars, planVars, peer, wVars, platform, call, log, prev, btns, bi, ops>>

---- 
(* InstagramBot.login *)

\* line 298
login ==
    /\ driver = "live"
    /\ Begin("login", "login_nav")
    /\ call' = [NoCall EXCEPT !.op = "login"]
    /\ UNCHANGED <<planVars, peer, driver, platform, sess, page>>

\* lines 302-306 without the test of line 304: the credentials are always written
login_navNoShortcut ==
    /\ site = "login_nav"
    /\ log' = [log EXCEPT !.touched = TRUE, !.homeAtNav = page.authed]
    /\ page' = [page EXCEPT !.dialog = "none", !.buttons = <<>>,
                            !.pending = IF @ = "home" THEN "home" ELSE "none"]
    /\ CallWrapped("login_user") /\ call' = call
    /\ UNCHANGED <<planVars, peer, driver, platform, sess, prev, btns, bi, ops>>

\* lines 302-305: navigate, then look for the Home icon
login_nav ==
    /\ site = "login_nav"
    /\ log' = [log EXCEPT !.touched = TRUE, !.homeAtNav = page.authed]
    /\ page' = [page EXCEPT !.dialog = "none", !.buttons = <<>>,
                            !.pending = IF @ = "home" THEN "home" ELSE "none"]
    /\ IF page.authed
       THEN Finish("True")
       ELSE CallWrapped("login_user") /\ call' = call
    /\ UNCHANGED <<planVars, peer, driver, platform, sess, prev, btns, bi, ops>>

\* lines 306-308: the two writes and the click have returned
login_next ==
    /\ site \in LoginCallSites
    /\ ehpc = "returned"
    /\ CASE site = "login_user" -> CallWrapped("login_pass")
         [] site = "login_pass" -> CallWrapped("login_submit")
         [] site = "login_submit" -> StartWait("login_wait", GateBudget)
    /\ UNCHANGED <<planVars, peer, botVars>>

\* lines 311-313 without the test of the poll's result
login_confirmAlways ==
    /\ site = "login_wait"
    /\ wpc = "done"
    /\ Finish("True")
    /\ UNCHANGED <<planVars, peer, driver, platform, sess, page, log, prev, btns, bi, ops>>

\* lines 311-313: the poll for the Home icon has returned
login_confirm ==
    /\ site = "login_wait"
    /\ wpc = "done"
    /\ IF wresult = "True"
       THEN Finish("True")
       ELSE Finish("Login failed: " \o "No login confirmation")
    /\ UNCHANGED <<planVars, peer, driver, platform, sess, page, log, prev, btns, bi, ops>>

\* lines 314-315: a decorated call of login raised
login_except ==
    /\ site \in LoginCallSites
    /\ ehpc = "raised"
    /\ Finish("Login failed: " \o ehFault)
    /\ UNCHANGED <<planVars, peer, driver, platform, sess, page, log, prev, btns, bi, ops>>

---- 
(* InstagramBot.post_image *)

\* line 330
allowed_extensions == { ".jpg", ".jpeg", ".png", ".gif", ".mp4", ".mov" }

\* the extensions of the paths a client passes (os.path.splitext(image_path)[1])
FileExts == { ".jpg", ".JPG", ".Mov", ".txt", ".TXT", "" }

\* str.lower(), line 331, on FileExts
Lower(e) ==
    CASE e = ".JPG" -> ".jpg"
      [] e = ".Mov" -> ".mov"
      [] e = ".TXT" -> ".txt"
      [] OTHER -> e

\* lines 326-333: the file exists and its extension is allowed
ValidFileAnyCase(exists, e) == exists
ValidFile(exists, e) == exists /\ Lower(e) \in allowed_extensions

\* the statements at the head of the three button scans (the for loops)
ScanSites == { "crop_scan", "edit_scan", "share_scan" }

ScanOf(d) == CASE d = "crop" -> "crop_scan" [] d = "edit" -> "edit_scan"
               [] OTHER -> "share_scan"
TextOf(d) == CASE d = "crop" -> "crop_text" [] d = "edit" -> "edit_text"
               [] OTHER -> "share_text"
ClickOf(d) == CASE d = "crop" -> "crop_click" [] d = "edit" -> "edit_click"
                [] OTHER -> "share_click"

\* the message of the TimeoutException each poll of post_image ends in
GateMessage(s) ==
    CASE s = "crop_wait" -> "Crop dialog not found"
      [] s = "edit_wait" -> "Edit dialog not found"
      [] s = "compose_wait" -> "Create new post dialog not found"
      [] OTHER -> "Unexpected confirmation error"

\* line 317
post_image ==
    /\ driver = "live"
    /\ Begin("post_image", "post_validate")
    /\ \E x \in BOOLEAN, e \in FileExts :
          call' = [NoCall EXCEPT !.op = "post_image", !.exists = x, !.ext = e]
    /\ UNCHANGED <<planVars, peer, driver, platform, sess, page>>

\* lines 326-335: the validation, before the first click
post_validate ==
    /\ site = "post_validate"
    /\ IF ~call.exists
       THEN Finish("Post failed: " \o "Image file not found")
       ELSE IF ~ValidFile(call.exists, call.ext)
       THEN Finish("Post failed: " \o "Unsupported file type: " \o Lower(call.ext))
       ELSE CallWrapped("post_new") /\ call' = call
    /\ UNCHANGED <<planVars, peer, driver, platform, sess, page, log, prev, btns, bi, ops>>

\* lines 335-338 and 355-356: a click or write outside the scans has returned
post_next ==
    /\ site \in {"post_new", "post_select", "post_file", "post_caption"}
    /\ ehpc = "returned"
    /\ CASE site = "post_new" ->
              CallWrapped("post_select") /\ UNCHANGED <<btns, bi, log>>
         [] site = "post_select" ->
              CallWrapped("post_file") /\ UNCHANGED <<btns, bi, log>>
         [] site = "post_file" ->
              StartWait("crop_wait", GateBudget) /\ UNCHANGED <<btns, bi, log>>
         [] site = "post_caption" ->
              \* line 356: find_elements of the buttons of the dialog
              /\ Goto("share_scan")
              /\ btns' = (IF page.dialog = "compose" THEN page.buttons ELSE <<>>)
              /\ bi' = 1
              /\ log' = [log EXCEPT !.touched = TRUE,
                                    !.trail = Append(@, EventOf("share_scan"))]
    /\ UNCHANGED <<planVars, peer, driver, platform, sess, page, call, prev, ops>>

\* lines 338-340, 345-347, 352-355: a poll for a dialog returned true
gate_passed ==
    /\ site \in {"crop_wait", "edit_wait", "compose_wait"}
    /\ wpc = "done" /\ wresult = "True"
    /\ IF site = "compose_wait"
       THEN /\ CallWrapped("post_caption")
            /\ log' = [log EXCEPT !.trail = Append(@, EventOf(site))]
            /\ UNCHANGED <<btns, bi>>
       ELSE \* find_elements of the buttons of the dialog
            /\ Goto(ScanOf(DialogOf(site)))
            /\ btns' = (IF page.dialog = DialogOf(site) THEN page.buttons ELSE <<>>)
            /\ bi' = 1
            /\ log' = [log EXCEPT !.touched = TRUE, !.trail = Append(@, EventOf(site))]
    /\ UNCHANGED <<planVars, peer, driver, platform, sess, page, call, prev, ops>>

\* lines 339, 346, 353, 362 without the raise: the flow goes on
gate_failedGoesOn ==
    /\ site \in WaitSites \ {"login_wait"}
    /\ wpc = "done" /\ wresult = "False"
    /\ IF site = "done_wait" THEN Finish("True")
       ELSE IF site = "compose_wait" THEN CallWrapped("post_caption") /\ call' = call
       ELSE Goto(ScanOf(DialogOf(site))) /\ call' = call
    /\ UNCHANGED <<planVars, peer, driver, platform, sess, page, log, prev, btns, bi, ops>>

\* lines 339, 346, 353, 362 with the poll started again in place of the raise
gate_failedPollsAgain ==
    /\ site \in WaitSites \ {"login_wait"}
    /\ wpc = "done" /\ wresult = "False"
    /\ StartWait(site, GateBudget) /\ call' = call
    /\ UNCHANGED <<planVars, peer, driver, platform, sess, page, log, prev, btns, bi, ops>>

\* lines 339, 346, 353, 362: a poll returned false
gate_failed ==
    /\ site \in WaitSites \ {"login_wait"}
    /\ wpc = "done" /\ wresult = "False"
    /\ Finish("Post failed: " \o GateMessage(site))
    /\ UNCHANGED <<planVars, peer, driver, platform, sess, page, log, prev, btns, bi, ops>>

\* what follows a scan, with the caption written right after the Edit scan
AfterScanNoComposeGate(d) ==
    CASE d = "crop" -> StartWait("edit_wait", GateBudget) /\ log' = log
      [] d = "edit" -> CallWrapped("post_caption") /\ log' = log
      [] OTHER -> /\ StartWait("done_wait", ConfirmBudget)
                  /\ log' = [log EXCEPT !.trail = Append(@, EventOf("done_wait"))]

\* what follows a scan: the poll for the next dialog, or for no dialog
AfterScan(d) ==
    CASE d = "crop" -> StartWait("edit_wait", GateBudget) /\ log' = log
      [] d = "edit" -> StartWait("compose_wait", GateBudget) /\ log' = log
      [] OTHER -> /\ StartWait("done_wait", ConfirmBudget)
                  /\ log' = [log EXCEPT !.trail = Append(@, EventOf("done_wait"))]

\* lines 340-341, 347-348, 356-357: the head of the for loop
scan_head ==
    /\ site \in ScanSites
    /\ IF bi <= Len(btns)
       THEN CallWrapped(TextOf(DialogOf(site))) /\ log' = log
       ELSE AfterScan(DialogOf(site))
    /\ UNCHANGED <<planVars, peer, driver, platform, sess, page, call, prev, btns, bi, ops>>

\* lines 341-342, 348-349, 357-358: get_text returned the label of the button
scan_text ==
    /\ site \in ScanTextSites
    /\ ehpc = "returned"
    /\ IF btns[bi] = LabelOf(site)
       THEN CallWrapped(ClickOf(DialogOf(site))) /\ bi' = bi
       ELSE Goto(ScanOf(DialogOf(site))) /\ bi' = bi + 1
    /\ UNCHANGED <<planVars, peer, driver, platform, sess, page, call, log, prev, btns, ops>>

\* lines 342-343, 349-350, 358-359: the click returned; break
scan_click ==
    /\ site \in ScanClickSites
    /\ ehpc = "returned"
    /\ AfterScan(DialogOf(site))
    /\ UNCHANGED <<planVars, peer, driver, platform, sess, page, call, prev, btns, bi, ops>>

\* lines 361-363: the poll for no dialog returned true
post_done ==
    /\ site = "done_wait"
    /\ wpc = "done" /\ wresult = "True"
    /\ Finish("True")
    /\ UNCHANGED <<planVars, peer, driver, platform, sess, page, log, prev, btns, bi, ops>>

\* lines 364-365: a decorated call of post_image raised
post_except ==
    /\ site \in PostCallSites
    /\ ehpc = "raised"
    /\ Finish("Post failed: " \o ehFault)
    /\ UNCHANGED <<planVars, peer, driver, platform, sess, page, log, prev, btns, bi, ops>>

---- 
(* BrowserHandler.kill_browser *)

\* line 264
kill_browser ==
    /\ Begin("kill_browser", "kill_check")
    /\ \E dp \in BOOLEAN :
          call' = [NoCall EXCEPT !.op = "kill_browser", !.delete_profile = dp]
    /\ UNCHANGED <<planVars, peer, driver, platform, sess, page>>

\* lines 266-267
kill_check ==
    /\ site = "kill_check"
    /\ IF driver = "none"
       THEN Finish("None")
       ELSE Goto("kill_quit") /\ call' = call
    /\ UNCHANGED <<planVars, peer, driver, platform, sess, page, log, prev, btns, bi, ops>>

\* line 268: self.driver.quit(); self.driver stays set
kill_quit ==
    /\ site = "kill_quit"
    /\ sess' = [sess EXCEPT !.quits = @ + 1]
    /\ driver' = "dead"
    /\ page' = NoPage
    /\ \/ Goto("kill_exit") /\ call' = call
       \/ \* a driver that was quit before may refuse
          /\ driver = "dead"
          /\ Finish("WebDriverException")
    /\ UNCHANGED <<planVars, peer, platform, log, prev, btns, bi, ops>>

\* line 269: self.sb_init.__exit__(None, None, None)
kill_exit ==
    /\ site = "kill_exit"
    /\ sess' = [sess EXCEPT !.exits = @ + 1]
    /\ Goto("kill_settle")
    /\ UNCHANGED <<planVars, peer, driver, platform, page, call, log, prev, btns, bi, ops>>

\* lines 270-272: time.sleep(5), then the test of delete_profile
kill_settle ==
    /\ site = "kill_settle"
    /\ sess' = [sess EXCEPT !.settles = @ + 1]
    /\ IF ~call.delete_profile
       THEN Finish("None")
       ELSE Goto("kill_remove") /\ call' = call
    /\ UNCHANGED <<planVars, peer, driver, platform, page, log, prev, btns, bi, ops>>

\* lines 273-280: the removal of the profile directory is issued
kill_remove ==
    /\ site = "kill_remove"
    /\ sess' = IF platform \in {"LINUX", "DARWIN"} \/ platform = "WINDOWS"
               THEN [sess EXCEPT !.removals = @ + 1]
               ELSE sess
    /\ Finish("None")
    /\ UNCHANGED <<planVars, peer, driver, platform, page, log, prev, btns, bi, ops>>

----------------------------------------------------------------------------
(* An instance and its client *)

InitBot ==
    /\ site = "client"
    /\ ehIdle /\ wIdle /\ NoPlan
    /\ botFresh /\ peer = NoPeer
    /\ platform \in Platforms

NextBot ==
    \/ start_chrome \/ EnvShow \/ EnvOther
    \/ login \/ login_nav \/ login_next \/ login_confirm \/ login_except
    \/ post_image \/ post_validate \/ post_next \/ gate_passed \/ gate_failed
    \/ scan_head \/ scan_text \/ scan_click \/ post_done \/ post_except
    \/ kill_browser \/ kill_check \/ kill_quit \/ kill_exit \/ kill_settle \/ kill_remove
    \/ ehRefuse \/ ehInvokeOk \/ ehInvokeFault \/ ehBackoff
    \/ wBeforeLoop \/ wInLoopBefore \/ wCond \/ wBudget
    \/ wProgress \/ wInLoopAfter \/ wSleep \/ wAfterLoop

SpecBot == InitBot /\ [][NextBot]_vars

----------------------------------------------------------------------------
(* One call of login or post_image on a session that is running *)

\* the session after start_chrome and any number of earlier calls, with one
\* call left to make
InitCall ==
    /\ site = "client"
    /\ ehIdle /\ wIdle /\ NoPlan
    /\ driver = "live"
    /\ sess = [NoSess EXCEPT !.entered = 1]
    /\ \E a \in BOOLEAN : page = [NoPage EXCEPT !.authed = a]
    /\ call = NoCall /\ log = NoLog /\ prev = NoPrev /\ btns = <<>> /\ bi = 0
    /\ ops = MaxOps - 1
    /\ platform = "LINUX" /\ peer = NoPeer

\* the statements of login and post_image and of the decorator frames they
\* open: everything but the call of the client and the steps of the page
FlowStep ==
    \/ login_nav \/ login_next \/ login_confirm \/ login_except
    \/ post_validate \/ post_next \/ gate_passed \/ gate_failed
    \/ scan_head \/ scan_text \/ scan_click \/ post_done \/ post_except
    \/ ehRefuse \/ ehInvokeOk \/ ehInvokeFault \/ ehBackoff
    \/ wBeforeLoop \/ wInLoopBefore \/ wCond \/ wBudget
    \/ wProgress \/ wInLoopAfter \/ wSleep \/ wAfterLoop

NextCall == login \/ post_image \/ EnvShow \/ EnvOther \/ FlowStep

\* a method that was called keeps running: every call into the driver, every
\* sleep and every statement returns
SpecCall == InitCall /\ [][NextCall]_vars /\ WF_vars(FlowStep)

----------------------------------------------------------------------------
(* Two BrowserHandler instances on one host: the instance above, created   *)
(* without temp_profile, and a peer                                        *)

\* a path a caller passes as temp_profile
Overrides == { "/tmp/ProfileOther" }

\* line 193-194: self.temp_profile of the instance, created without override
temp_profile == TEMP_PROFILES(platform)

\* lines 190-198: BrowserHandler(temp_profile) on the same host, with an
\* override or without (None)
peer_init ==
    /\ peer.driver = "absent"
    /\ \E o \in Overrides \cup {"None"} :
          peer' = [peer EXCEPT !.driver = "none",
                               !.temp_profile = IF o # "None" THEN o
                                                ELSE TEMP_PROFILES(platform)]
    /\ UNCHANGED <<site, ehVars, planVars, wVars, botVars>>

\* lines 243-254: the peer starts its browser on its profile directory
peer_start ==
    /\ peer.driver = "none"
    /\ peer' = [peer EXCEPT !.driver = "live"]
    /\ UNCHANGED <<site, ehVars, planVars, wVars, botVars>>

\* lines 264-280: kill_browser of the peer, on its live session
peer_kill ==
    /\ peer.driver = "live"
    /\ \E dp \in BOOLEAN :
          peer' = [peer EXCEPT
                     !.driver = "dead",
                     !.removals = IF dp /\ platform \in {"LINUX", "DARWIN", "WINDOWS"}
                                  THEN @ + 1 ELSE @]
    /\ UNCHANGED <<site, ehVars, planVars, wVars, botVars>>

InitHost ==
    /\ site = "client"
    /\ ehIdle /\ wIdle /\ NoPlan
    /\ botFresh /\ peer = NoPeer
    /\ platform \in Platforms

NextHost ==
    \/ start_chrome
    \/ kill_browser \/ kill_check \/ kill_quit \/ kill_exit \/ kill_settle \/ kill_remove
    \/ peer_init \/ peer_start \/ peer_kill

SpecHost == InitHost /\ [][NextHost]_vars

----------------------------------------------------------------------------
(* main *)

\* how lines 389-410 end.  Lines 390-397, which assign username, password,
\* image_path and caption, are comments in the source: as the file stands,
\* line 398 reads image_path before it is assigned ("unbound").  The other
\* outcomes are those of main with the four names assigned, as the comments
\* have it: download_file raises, a parameter is empty, or all is there.
StartOutcomes == { "unbound", "download failed", "missing parameters", "ok" }

\* how InstagramBot(username, password, headless=False) ends (line 415, which
\* runs start_chrome, lines 243-254): the browser does not come up
\* (__enter__ raises), it comes up and maximize_window or
\* set_page_load_timeout raises, or the constructor returns
InitOutcomes == { "launch failed", "configuration failed", "ok" }

\* lines 386-410: bot = None, the download, the test of the parameters
main_start ==
    /\ site = "main"
    /\ \E o \in StartOutcomes :
          /\ call' = [NoCall EXCEPT !.op = "main", !.outcome = o]
          /\ site' = IF o = "ok" THEN "main_init" ELSE "main_finally"
    /\ UNCHANGED <<ehVars, planVars, peer, wVars, driver, platform, sess, page, log, prev,
                   btns, bi, ops>>

\* line 415: bot is assigned only when the constructor returns
main_init ==
    /\ site = "main_init"
    /\ \E o \in InitOutcomes :
          /\ call' = [NoCall EXCEPT !.op = "__init__", !.outcome = o]
          /\ site' = IF o = "ok" THEN "client" ELSE "main_finally"
          /\ IF o = "launch failed"
             THEN UNCHANGED <<driver, sess, page>>
             ELSE /\ driver' = "live"
                  /\ sess' = [sess EXCEPT !.entered = @ + 1]
                  /\ \E a \in BOOLEAN : page' = [NoPage EXCEPT !.authed = a]
    /\ UNCHANGED <<ehVars, planVars, peer, wVars, platform, log, prev, btns, bi, ops>>

\* line 418
main_login ==
    /\ site = "client"
    /\ call.op = "__init__"
    /\ Enter("login_nav")
    /\ call' = [NoCall EXCEPT !.op = "login"]
    /\ UNCHANGED <<planVars, peer, driver, platform, sess, page, ops>>

\* lines 419-426: login returned True
main_post ==
    /\ site = "client"
    /\ call.op = "login" /\ call.outcome = "True"
    /\ Enter("post_validate")
    /\ \E x \in BOOLEAN, e \in FileExts :
          call' = [NoCall EXCEPT !.op = "post_image", !.exists = x, !.ext = e]
    /\ UNCHANGED <<planVars, peer, driver, platform, sess, page, ops>>

\* lines 427-445 and 447-462: the response is printed, for a post that
\* returned True or for the exception login or post_image raised
main_respond ==
    /\ site = "client"
    /\ \/ call.op = "post_image"
       \/ call.op = "login" /\ call.outcome # "True"
    /\ site' = "main_finally"
    /\ UNCHANGED <<ehVars, planVars, peer, wVars, botVars>>

\* lines 464-466: if bot: bot.kill_browser()
main_finally ==
    /\ site = "main_finally"
    /\ IF call.op \in {"login", "post_image"}
       THEN /\ Enter("kill_check")
            /\ call' = [NoCall EXCEPT !.op = "kill_browser"]
       ELSE /\ site' = "main_end"
            /\ UNCHANGED <<ehVars, wVars, call, log, prev, btns, bi>>
    /\ UNCHANGED <<planVars, peer, driver, platform, sess, page, ops>>

\* kill_browser returned: main returns
main_return ==
    /\ site = "client"
    /\ call.op = "kill_browser"
    /\ site' = "main_end"
    /\ UNCHANGED <<ehVars, planVars, peer, wVars, botVars>>

InitMain ==
    /\ site = "main"
    /\ ehIdle /\ wIdle /\ NoPlan
    /\ botFresh /\ peer = NoPeer
    /\ platform \in Platforms

NextMain ==
    \/ main_start \/ main_init \/ main_login \/ main_post \/ main_respond
    \/ main_finally \/ main_return
    \/ EnvShow \/ EnvOther
    \/ login_nav \/ login_next \/ login_confirm \/ login_except
    \/ post_validate \/ post_next \/ gate_passed \/ gate_failed
    \/ scan_head \/ scan_text \/ scan_click \/ post_done \/ post_except
    \/ kill_check \/ kill_quit \/ kill_exit \/ kill_settle \/ kill_remove
    \/ ehRefuse \/ ehInvokeOk \/ ehInvokeFault \/ ehBackoff
    \/ wBeforeLoop \/ wInLoopBefore \/ wCond \/ wBudget
    \/ wProgress \/ wInLoopAfter \/ wSleep \/ wAfterLoop

SpecMain == InitMain /\ [][NextMain]_vars

----------------------------------------------------------------------------
(* Claims about exceptional_handler, under SpecRetry *)

ehFinished == ehpc \in {"returned", "raised"}

\* C1: with ceiling N >= 0 and an operation that raises a transient fault on
\* every call, the wrapper invokes the operation exactly N times and then
\* raises "Maximum retries reached!"; it never returns a value, and the
\* operation is never invoked once the retry counter has reached the ceiling.
C1_ExactlyNAttempts ==
    /\ (ehFinished /\ max_retries >= 0 /\ faultsFirst = AlwaysFaults) =>
          /\ ehpc = "raised"
          /\ ehFault = MaxRetriesReached
          /\ calls = max_retries
    /\ calls > 0 => calls <= max_retries
    /\ calls \in {retry, retry + 1}

C1_Witness ==
    /\ site = "retry_client" /\ faultsFirst = AlwaysFaults /\ max_retries = 2
    /\ ehpc = "raised" /\ ehFault = MaxRetriesReached /\ calls = 2

\* C4: an operation that raises a transient fault on its first j calls and
\* succeeds on call j+1, with j+1 <= N, makes the wrapper return the value
\* after exactly j+1 invocations.
C4_SuccessAfterFaults ==
    (ehFinished /\ thenOk /\ faultsFirst + 1 <= max_retries) =>
        (ehpc = "returned" /\ calls = faultsFirst + 1)

C4_Witness ==
    /\ site = "retry_client" /\ max_retries = 2 /\ faultsFirst = 1 /\ thenOk
    /\ ehpc = "returned" /\ calls = 2

\* C5: only faults of COMMON_EXCEPTIONS are retried: a fault of another kind
\* leaves the wrapper at once, with no backoff sleep and no further
\* invocation, whatever the retry counter and the ceiling are.
C5_OnlyTransientRetried ==
    [][ /\ (calls' = calls + 1 /\ ehFault' \in OtherFaults) =>
              (ehpc' = "raised" /\ sleeps' = sleeps)
        /\ (ehpc = "raised") => (calls' = calls /\ sleeps' = sleeps /\ ehpc' = "raised")
        /\ (sleeps' # sleeps \/ retry' # retry) => ehFault \in COMMON_EXCEPTIONS
      ]_vars

C5_Witness ==
    /\ site = "retry_client" /\ ehpc = "raised" /\ ehFault \in OtherFaults
    /\ retry = 1 /\ calls = 2 /\ sleeps = 1 /\ max_retries = 3

C20_Step ==
    /\ (ehpc = "backoff") =>
          (sleeps' = sleeps + 1 /\ retry' = retry + 1 /\ ehpc' = "entry"
              /\ calls' = calls)
    /\ (ehpc # "backoff") => (sleeps' = sleeps /\ retry' = retry)
    /\ (ehpc' = "backoff") => (ehFault' \in COMMON_EXCEPTIONS /\ calls' = calls + 1)

C20_Counts ==
    /\ sleeps = retry
    /\ calls = sleeps + (IF ehpc \in {"backoff", "returned"}
                              \/ (ehpc = "raised" /\ ehFault # MaxRetriesReached)
                         THEN 1 ELSE 0)
    /\ (ehpc = "raised" /\ ehFault = MaxRetriesReached /\ max_retries >= 0) =>
          sleeps = max_retries
    /\ (ehpc = "returned") => sleeps = faultsFirst

\* C20: every caught transient fault is followed by exactly one backoff
\* sleep and one increment of the retry counter, both before the counter is
\* checked again; a call that ends in "Maximum retries reached!" with
\* ceiling N >= 0 has slept exactly N times, and a call that returns after j
\* transient faults has slept exactly j times.
C20_OneSleepPerFault ==
    /\ [][C20_Step]_vars
    /\ []C20_Counts

C20_Witness ==
    /\ site = "retry_client" /\ ehpc = "returned" /\ max_retries = 3
    /\ faultsFirst = 2 /\ calls = 3 /\ sleeps = 2 /\ retry = 2

----------------------------------------------------------------------------
(* Claims about wait_until, under SpecWait *)

\* C2: with budget M >= 0 and a predicate that never becomes true, the
\* wrapper returns false after exactly M evaluations of the predicate.
C2_ExactlyMEvaluations ==
    (wpc = "done" /\ max_attempts >= 0 /\ trueAt = 0) =>
        (wresult = "False" /\ evals = max_attempts)

\* C3: with budget M and a predicate first true on evaluation k, 1 <= k <= M,
\* the wrapper returns true after exactly k evaluations.
C3_TrueAfterKEvaluations ==
    /\ (wpc = "done" /\ 1 <= trueAt /\ trueAt <= max_attempts) =>
          (wresult = "True" /\ evals = trueAt)
    /\ (trueAt >= 1 /\ evals >= trueAt) => wpc \in {"after_loop", "done"}

C3_Witness ==
    /\ site = "wait_client" /\ wpc = "done" /\ trueAt = 3 /\ max_attempts = 3
    /\ wresult = "True" /\ evals = 3

\* C10: every negative budget means no budget: with max_tries < 0 the
\* wrapper never gives up, so it never returns false.
C10_NegativeIsUnbounded ==
    max_attempts < 0 => (not_completed = FALSE /\ wresult # "False")

C16_Counts ==
    /\ hooks.before_loop = (IF wpc = "before_loop" THEN 0 ELSE 1)
    /\ hooks.in_loop_before = (IF wpc = "cond" THEN evals + 1 ELSE evals)
    /\ hooks.in_loop_after = (IF wpc = "in_loop_after" THEN attempt - 1 ELSE attempt)
    /\ hooks.after_loop = (IF wpc = "done" THEN 1 ELSE 0)
    /\ (wpc = "done") =>
          /\ evals >= 1
          /\ hooks.in_loop_before = evals
          /\ hooks.in_loop_after = evals - 1
          /\ wsleeps = hooks.in_loop_after

C16_Step ==
    /\ (evals' # evals) =>
          (wpc = "cond" /\ hooks.in_loop_before = evals' /\ hooks.before_loop = 1
              /\ hooks.after_loop = 0)
    /\ (hooks'.in_loop_before # hooks.in_loop_before) => wpc' = "cond"
    /\ (hooks'.in_loop_after # hooks.in_loop_after) =>
          (hooks'.in_loop_after = evals /\ wpc' = "sleep")
    /\ (hooks'.after_loop # hooks.after_loop) =>
          (wpc' = "done" /\ wresult' \in {"True", "False"})
    /\ (wpc = "done") => (hooks' = hooks /\ evals' = evals)

\* C16: before_loop runs once, before any evaluation; in_loop_before runs
\* once immediately before each evaluation; in_loop_after runs once after
\* each failed evaluation that does not end the loop; after_loop runs
\* exactly once, after the last evaluation, whether the call returns true or
\* false.
C16_HookProtocol ==
    /\ [][C16_Step]_vars
    /\ []C16_Counts

C16_Witness ==
    /\ site = "wait_client" /\ wpc = "done" /\ wresult = "False" /\ max_attempts = 2
    /\ evals = 3
    /\ hooks = [before_loop |-> 1, in_loop_before |-> 3, in_loop_after |-> 2,
                after_loop |-> 1]

\* the loop is at its head, in the tests of an iteration, or left: not
\* inside lines 175-179, where the counters are updated one after the other
wBetweenAttempts == wpc \in {"before_loop", "in_loop_before", "cond", "budget", "after_loop", "done"}

\* C21: in the loop of wait_until with budget M >= 0, 0 <= attempt <= M in
\* every state and dots is 1, 2 or 3; attempt is the number of in_loop_after
\* invocations and of sleeps made so far, each of which follows the
\* increment of attempt within the same iteration (lines 175-179).
C21_LoopInvariant ==
    /\ dots \in {1, 2, 3}
    /\ attempt >= 0
    /\ (max_attempts >= 0) => attempt <= max_attempts
    /\ wBetweenAttempts =>
          (attempt = hooks.in_loop_after /\ attempt = wsleeps)
    /\ (wpc = "in_loop_after") =>
          (attempt = hooks.in_loop_after + 1 /\ attempt = wsleeps + 1)
    /\ (wpc = "sleep") =>
          (attempt = hooks.in_loop_after /\ attempt = wsleeps + 1)
    /\ (wpc = "progress") =>
          (attempt = hooks.in_loop_after /\ attempt = wsleeps
              /\ (max_attempts >= 0 => attempt < max_attempts))
    /\ dots = (attempt % 3) + 1

C21_Witness ==
    /\ site = "wait_client" /\ wpc = "done" /\ wresult = "False"
    /\ max_attempts = 3 /\ attempt = 3 /\ hooks.in_loop_after = 3 /\ wsleeps = 3
    /\ dots = 1

----------------------------------------------------------------------------
(* Claims about InstagramBot and BrowserHandler, under SpecBot *)

NoCredentials == log.userWrites = 0 /\ log.passWrites = 0 /\ log.submits = 0

\* C6: login is idempotent: when the Home icon is present after the
\* navigation, login returns True without writing the username or the
\* password and without clicking submit; a login that directly follows a
\* successful login returns True as well and submits no credentials.
C6_LoginIdempotent ==
    /\ (call.op = "login" /\ log.homeAtNav) =>
          (site = "client" /\ call.outcome = "True" /\ NoCredentials)
    /\ (call.op = "login" /\ prev.op = "login" /\ prev.outcome = "True") =>
          /\ NoCredentials
          /\ site \in {"login_nav", "client"}
          /\ site = "client" => call.outcome = "True"

C6_Witness ==
    /\ site = "client" /\ call.op = "login" /\ call.outcome = "True"
    /\ prev.op = "login" /\ prev.outcome = "True"
    /\ log.homeAtNav /\ log.touched /\ NoCredentials

\* C7: validation comes before every remote interaction: when the file does
\* not exist or its extension is not allowed, post_image fails with the
\* validation failure, makes no call into the driver, and is not retried.
C7_ValidationFirst ==
    (call.op = "post_image"
        /\ (~call.exists \/ Lower(call.ext) \notin allowed_extensions)) =>
        /\ ~log.touched
        /\ ehpc = "idle" /\ calls = 0 /\ sleeps = 0
        /\ wpc = "idle" /\ evals = 0
        /\ site \in {"post_validate", "client"}
        /\ site = "client" =>
              call.outcome = (IF ~call.exists
                              THEN "Post failed: Image file not found"
                              ELSE "Post failed: Unsupported file type: "
                                       \o Lower(call.ext))

C7_Witness ==
    /\ site = "client" /\ call.op = "post_image"
    /\ call.exists /\ call.ext = ".TXT"
    /\ call.outcome = "Post failed: Unsupported file type: .txt"
    /\ ~log.touched

\* C8: when a poll of post_image exhausts its budget, post_image ends in the
\* failure named for that poll and nothing of a later step is done: after
\* "Crop dialog not found" there was no Next click, no caption, no Share.
C8_FailsAtFirstFailingGate ==
    /\ [][ (site \in WaitSites \ {"login_wait"} /\ wpc = "done" /\ wresult = "False"
                /\ <<site, wpc, call, log>>' # <<site, wpc, call, log>>) =>
              /\ site' = "client"
              /\ call'.outcome = "Post failed: " \o GateMessage(site)
              /\ log' = log
         ]_vars
    /\ [] /\ (call.outcome = "Post failed: Crop dialog not found") =>
                (log.cropNext = 0 /\ log.editNext = 0 /\ log.captions = 0
                    /\ log.shares = 0)
          /\ (call.outcome = "Post failed: Edit dialog not found") =>
                (log.editNext = 0 /\ log.captions = 0 /\ log.shares = 0)
          /\ (call.outcome = "Post failed: Create new post dialog not found") =>
                (log.captions = 0 /\ log.shares = 0)

C8_Witness ==
    /\ site = "client" /\ call.op = "post_image"
    /\ call.outcome = "Post failed: Crop dialog not found"
    /\ log.fileWrites = 1 /\ log.cropNext = 0 /\ log.captions = 0 /\ log.shares = 0

\* C9: teardown is idempotent: a kill_browser after the one that tore the
\* session down does not quit the driver again, does not wait again and
\* issues no second removal; on a session never started it does nothing.
C9_TeardownIdempotent ==
    /\ sess.quits <= 1 /\ sess.exits <= 1 /\ sess.settles <= 1 /\ sess.removals <= 1
    /\ sess.entered = 0 => (sess.quits = 0 /\ sess.settles = 0 /\ sess.removals = 0)

\* C13: when a button scan of post_image finds no button with the label it
\* looks for ("Next", "Share"), post_image fails at that step: it does not go
\* on to the poll that follows the scan with the click not made.
C13_MissingButtonFails ==
    /\ (site = "edit_wait") => log.cropNext = 1
    /\ (site = "compose_wait") => log.editNext = 1
    /\ (site = "done_wait") => log.shares = 1

\* C14: post_image returns True only if it wrote the file path, clicked Next
\* in the Crop dialog, clicked Next in the Edit dialog, wrote the caption and
\* clicked Share: no success with one of the five left out.
C14_SuccessMeansAllSteps ==
    (site = "client" /\ call.op = "post_image" /\ call.outcome = "True") =>
        /\ log.fileWrites = 1
        /\ log.cropNext = 1
        /\ log.editNext = 1
        /\ log.captions = 1
        /\ log.shares = 1

NoConfirmation == "Login failed: " \o "No login confirmation"

\* C15: login returns True only if the Home icon was found, right after the
\* navigation or by an evaluation of the poll.  When the icon does not show
\* after the credentials were submitted, the poll uses up its budget of 20
\* and login ends in "Login failed: No login confirmation"; the credentials
\* were submitted once and the flow was not started again.
C15_LoginOutcome ==
    (call.op = "login") =>
        /\ (site = "client" /\ call.outcome = "True") =>
              (log.homeAtNav \/ log.homeAtPoll)
        /\ log.userWrites <= 1 /\ log.passWrites <= 1 /\ log.submits <= 1
        /\ (log.submits = 1) =>
              /\ site \in {"login_submit", "login_wait", "client"}
              /\ log.userWrites = 1 /\ log.passWrites = 1
        /\ (site = "login_wait" /\ wpc = "done") =>
              /\ wresult = (IF log.homeAtPoll THEN "True" ELSE "False")
              /\ ~log.homeAtPoll =>
                    (max_attempts = GateBudget /\ attempt = GateBudget
                        /\ evals > GateBudget)
        /\ (site = "client" /\ log.submits = 1 /\ ~log.homeAtPoll) =>
              call.outcome = NoConfirmation
        /\ (site = "client" /\ call.outcome = NoConfirmation) =>
              (log.submits = 1 /\ ~log.homeAtNav /\ ~log.homeAtPoll)

C15_Witness ==
    /\ site = "client" /\ call.op = "login" /\ call.outcome = NoConfirmation
    /\ log.userWrites = 1 /\ log.passWrites = 1 /\ log.submits = 1
    /\ ~log.homeAtPoll /\ ~page.authed

\* the entries of the trail in the order post_image is written in
StepOrder ==
    << "file", "crop_seen", "crop_next", "edit_seen", "edit_next", "compose_seen",
       "caption", "share_scan", "share", "done_poll" >>

Pos(e) ==
    CASE e = "file" -> 1 [] e = "crop_seen" -> 2 [] e = "crop_next" -> 3
      [] e = "edit_seen" -> 4 [] e = "edit_next" -> 5 [] e = "compose_seen" -> 6
      [] e = "caption" -> 7 [] e = "share_scan" -> 8 [] e = "share" -> 9
      [] OTHER -> 10

Done(e) == \E k \in 1 .. Len(log.trail) : log.trail[k] = e

\* C17: the steps of post_image happen in one order: the file is supplied
\* before the poll for the Crop dialog; Next is clicked in the Crop dialog
\* only after that dialog was found, and in the Edit dialog only after that
\* one was found; the caption is written only after the Create new post
\* dialog was found; Share is clicked only after the caption was written;
\* the last poll starts only after the scan for Share.
C17_StepOrder ==
    (call.op = "post_image") =>
        /\ \A i \in 1 .. Len(log.trail) - 1 :
              Pos(log.trail[i]) < Pos(log.trail[i + 1])
        /\ \A i \in 1 .. Len(log.trail) : log.trail[i] = StepOrder[Pos(log.trail[i])]
        /\ (site = "crop_wait" \/ Done("crop_seen")) => Done("file")
        /\ (site \in {"crop_scan", "crop_text", "crop_click"} \/ Done("crop_next")) =>
              Done("crop_seen")
        /\ (site = "edit_wait" \/ Done("edit_seen")) => Done("crop_seen")
        /\ (site \in {"edit_scan", "edit_text", "edit_click"} \/ Done("edit_next")) =>
              Done("edit_seen")
        /\ (site = "compose_wait" \/ Done("compose_seen")) => Done("edit_seen")
        /\ (site = "post_caption" \/ Done("caption")) => Done("compose_seen")
        /\ (site \in {"share_scan", "share_text", "share_click"} \/ Done("share")) =>
              (Done("caption") /\ Done("share_scan"))
        /\ (site = "done_wait" \/ Done("done_poll")) =>
              (Done("share_scan") /\ Done("done_poll"))

C17_Witness ==
    /\ site = "client" /\ call.op = "post_image" /\ call.outcome = "True"
    /\ log.trail = StepOrder

\* C18: a kill_browser on a live session quits the driver first, then waits
\* for the settle delay, and only then, whenever delete_profile is true,
\* issues the removal of the profile directory, exactly once; with
\* delete_profile false it issues no removal.
C18_TeardownOrder ==
    /\ (sess.settles > 0) => (sess.quits > 0 /\ sess.exits > 0)
    /\ (sess.removals > 0) => sess.settles > 0
    /\ (site \in {"kill_exit", "kill_settle", "kill_remove"}) => sess.quits > 0
    /\ (site = "kill_remove") => (sess.settles > 0 /\ call.delete_profile)
    /\ (site = "client" /\ call.op = "kill_browser" /\ call.outcome = "None"
            /\ sess.quits = 1) =>
          sess.removals = (IF call.delete_profile THEN 1 ELSE 0)

\* C19: login and post_image always terminate: a call that has started
\* returns or raises, whatever the page shows and however the driver fails.
C19_Terminates ==
    [](((call.op \in {"login", "post_image"}) /\ site # "client") => <>(site = "client"))

C19_Witness ==
    /\ site = "client" /\ call.op = "post_image"
    /\ call.outcome = "Post failed: " \o "Unexpected confirmation error"
    /\ log.captions = 1 /\ log.shares = 1

----------------------------------------------------------------------------
(* Claims about main, under SpecMain *)

----------------------------------------------------------------------------
(* Claims about two instances, under SpecHost *)

\* the peer was created without an override of temp_profile
PeerByDefault == peer.driver # "absent" /\ peer.temp_profile \notin Overrides

\* a step that issues the removal of a profile directory another instance,
\* still live, runs on
C11_RemovesActive ==
    \/ /\ sess'.removals > sess.removals
       /\ peer.driver = "live" /\ peer.temp_profile = temp_profile
    \/ /\ peer'.removals > peer.removals
       /\ driver = "live" /\ peer.temp_profile = temp_profile

\* C11: two instances created without an override of temp_profile have
\* different profile paths, so the teardown of one never removes the
\* directory of the other while that one's session is live.
C11_ProfilesIsolated ==
    /\ [](PeerByDefault => peer.temp_profile # temp_profile)
    /\ [][PeerByDefault => ~C11_RemovesActive]_vars

====
